---- MODULE Spec2Model ----
(***************************************************************************)
(* Model of the God-Mind orchestrator                                      *)
(*   src/core/consciousness/apex_orchestrator.py  (ApexConsciousness)      *)
(* One dispatch is process_cognitive_task: allocate agents, fan out one    *)
(* coroutine per agent with asyncio.gather(return_exceptions=True), filter *)
(* the exceptions, consolidate, store in the memory constellation, return. *)
(*                                                                         *)
(* Numbers: cognitive_load and confidence_score are floats in the code;    *)
(* here they are exact rationals counted in hundredths (0.85 is 85/1).     *)
(* Wall-clock readings that only label a result (result["timestamp"],      *)
(* "processing_time") are left out; the clock that the code reads for      *)
(* identifiers, last_activity and the stored document is `now`, in seconds.*)
(*                                                                         *)
(* The session store of src/memory/auto_memory_bank.py is modelled with    *)
(* Python values and JSON documents kept apart: json.dump and json.load    *)
(* are the operators JsonDump and JsonLoad, and the file holds a JSON      *)
(* document or the text a failed dump left behind.                         *)
(*                                                                         *)
(* The module global APEX_CONSCIOUSNESS with initialize_god_mind and       *)
(* get_consciousness, and one ApexAgentChain of                            *)
(* src/agents/agent_chain_upgrade.py, have their own variables and         *)
(* specifications (SpecSingleton, SpecChain).                              *)
(***************************************************************************)
EXTENDS Integers, Sequences, FiniteSets, TLC

\* ------------------------------------------------------------------ bounds
\* range(10) trinity teams in the code; the model deploys fewer
NumTrinityTeams == 1
\* range(170) specialists in the code; the model deploys fewer
NumSpecialists == 14
\* calls made one after another on one orchestrator instance (SpecCalls)
MaxDispatches == 2
\* seconds the clock can advance
MaxClock == 1
\* length of the result lists handed to the consolidation (SpecConsolidate)
MaxResults == 3
\* calls of process_cognitive_task running at the same time (SpecConcurrent)
NumCallers == 2
\* callers of save_chat_memory (SpecStore)
NumSavers == 2
\* calls of initialize_god_mind and get_consciousness (SpecSingleton)
MaxSingletonCalls == 5
\* calls of run_chain and discover_routines on one ApexAgentChain (SpecChain)
MaxChainCalls == 4

\* ------------------------------------------------------- program constants
\* [:9] in _allocate_agents_for_task
GeneralTeamSize == 9
\* "cognitive_load": 0.85, in hundredths
CognitiveLoad == 85
\* range(10): the trinity teams _deploy_agent_swarm deploys
DeployedTrinityTeams == 10
\* range(170): the specialists _deploy_agent_swarm deploys
DeployedSpecialists == 170

None == "None"

\* ------------------------------------------------------------ agent swarm
Roles == <<"ingest", "analyze", "publish">>

Specializations ==
    << "file_categorization", "document_analysis", "code_review",
       "data_extraction", "pattern_recognition", "content_generation",
       "web_scraping", "api_integration", "memory_management",
       "structure_optimization", "metadata_generation", "format_conversion" >>

\* variant: the trinity agents deployed role by role, every team's ingest
\* agent first
DeployTrinityByRole(teams) ==
    [k \in 1..(3 * teams) |->
        [kind |-> "trinity", n |-> (k - 1) % teams,
         tag |-> Roles[((k - 1) \div teams) + 1]]]

\* the trinity loop of _deploy_agent_swarm over range(teams): agent_id
\* f"{team_id}_{role}" with team_id f"trinity_{i:02d}", kept as its parts
DeployTrinity(teams) ==
    [k \in 1..(3 * teams) |->
        [kind |-> "trinity", n |-> (k - 1) \div 3, tag |-> Roles[((k - 1) % 3) + 1]]]

\* the specialist loop of _deploy_agent_swarm over range(count): agent_id
\* f"specialist_{i:03d}_{spec}" with spec = specializations[i % 12]
DeploySpecialists(count) ==
    [k \in 1..count |->
        [kind |-> "specialist", n |-> k - 1,
         tag |-> Specializations[((k - 1) % Len(Specializations)) + 1]]]

TrinityIds == DeployTrinity(NumTrinityTeams)

SpecialistIds == DeploySpecialists(NumSpecialists)

\* self.agents.keys(), in insertion order
AgentKeys == TrinityIds \o SpecialistIds

\* self.agents.keys() of the swarm the code deploys
DeployedAgentKeys ==
    DeployTrinity(DeployedTrinityTeams) \o DeploySpecialists(DeployedSpecialists)

AgentSet == {AgentKeys[k] : k \in 1..Len(AgentKeys)}

\* Agent.agent_type
AgentType(agent_id) ==
    IF agent_id.kind = "trinity" THEN "TRINITY" ELSE "SPECIALIST"

\* Agent.capabilities
Capabilities(agent_id) ==
    IF agent_id.kind = "trinity"
    THEN <<"data_processing", "analysis", "content_generation">>
    ELSE <<agent_id.tag, "collaboration", "optimization">>

\* `word in agent_id` for the words the code looks for: none of them is a
\* substring of another part of an identifier, so the test is on the parts
IdContains(agent_id, word) == word \in {agent_id.kind, agent_id.tag}

InSeq(x, s) == \E k \in 1..Len(s) : s[k] = x

Min(a, b) == IF a < b THEN a ELSE b

\* _get_agents_by_capability on the agents with the given keys
AgentsByCapability(keys, capability) ==
    SelectSeq(keys, LAMBDA a : InSeq(capability, Capabilities(a)))

\* _allocate_agents_for_task on the agents with the given keys
AllocateAgents(keys, task_type) ==
    IF task_type = "file_organization" THEN AgentsByCapability(keys, "file_categorization")
    ELSE IF task_type = "document_processing" THEN AgentsByCapability(keys, "document_analysis")
    ELSE IF task_type = "code_analysis" THEN AgentsByCapability(keys, "code_review")
    ELSE LET trinity == SelectSeq(keys, LAMBDA a : IdContains(a, "trinity"))
         IN  SubSeq(trinity, 1, Min(GeneralTeamSize, Len(trinity)))

\* _get_agents_by_capability
GetAgentsByCapability(capability) == AgentsByCapability(AgentKeys, capability)

\* _allocate_agents_for_task
AllocateAgentsForTask(task_type) == AllocateAgents(AgentKeys, task_type)

\* ------------------------------------------------------------------ tasks
\* identifiers are kept as their parts: "t_1" is [prefix |-> "t", n |-> 1]
TaskIds == {[prefix |-> "t", n |-> 1], [prefix |-> "t", n |-> 2]}

TaskTypes == {"general", "file_organization", "document_processing", "code_analysis"}

\* the task dictionaries a caller passes: with and without "id" and "type"
Tasks ==
    {[id |-> i, type |-> t, input |-> "./workspace"] : i \in TaskIds, t \in TaskTypes}
        \cup {[type |-> t] : t \in TaskTypes}
        \cup {[id |-> [prefix |-> "t", n |-> 1]]}

\* dict.get(key, default)
TaskGet(task, key, default) ==
    IF key \in DOMAIN task THEN task[key] ELSE default

\* f"task_{int(time.time())}"
GeneratedTaskId(t) == [prefix |-> "task", n |-> t]

\* variant: every agent gets the whole task
DecomposeGeneral(task, agent_id) == [action |-> "general_processing", data |-> task]

\* _decompose_task_for_agent
DecomposeTaskForAgent(task, agent_id) ==
    IF AgentType(agent_id) = "TRINITY" /\ IdContains(agent_id, "ingest")
    THEN [action |-> "data_ingestion", target |-> TaskGet(task, "input", None)]
    ELSE IF AgentType(agent_id) = "TRINITY" /\ IdContains(agent_id, "analyze")
    THEN [action |-> "analysis", focus |-> TaskGet(task, "analysis_type", None)]
    ELSE IF AgentType(agent_id) = "TRINITY" /\ IdContains(agent_id, "publish")
    THEN [action |-> "result_synthesis", format |-> TaskGet(task, "output_format", None)]
    ELSE IF AgentType(agent_id) = "SPECIALIST"
    THEN [action |-> "specialized_processing",
          specialty |-> Capabilities(agent_id)[1],
          data |-> TaskGet(task, "data", None)]
    ELSE [action |-> "general_processing", data |-> task]

\* the agent_task dictionaries built by the loop of _coordinate_agent_execution
AgentTasks(agent_ids, task) ==
    [k \in 1..Len(agent_ids) |->
        [agent_id |-> agent_ids[k],
         subtask |-> DecomposeTaskForAgent(task, agent_ids[k]),
         context |-> TaskGet(task, "context", None)]]

\* ---------------------------------------------------------------- results
\* the dictionary _execute_agent_task returns
AgentResult(agent_task) ==
    [agent_id |-> agent_task.agent_id,
     status |-> "completed",
     result |-> <<"Processed", TaskGet(agent_task.subtask, "action", "unknown"), "successfully">>,
     cognitive_load |-> CognitiveLoad]

\* an exception object in the list asyncio.gather returns
ExceptionResult == [exception |-> "Exception"]

\* a slot of the gather whose awaitable has not finished
Unfinished == [unfinished |-> TRUE]

\* isinstance(result, Exception)
IsException(result) == "exception" \in DOMAIN result

\* variant: the gather called without return_exceptions
ReturnExceptionsOff == FALSE

\* asyncio.gather(*tasks, return_exceptions=True)
ReturnExceptions == TRUE

\* variant: results collected in the order the awaitables finish
GatherStoreAsCompleted(slots, k, result) ==
    LET free == {j \in 1..Len(slots) : slots[j] = Unfinished}
        first == CHOOSE j \in free : \A i \in free : j <= i
    IN  [slots EXCEPT ![first] = result]

\* asyncio.gather keeps each result at the position of its awaitable
GatherStore(slots, k, result) == [slots EXCEPT ![k] = result]

\* variant: the gathered list handed on without the filter
ValidResultsUnfiltered(results) == results

\* the loop that filters the exceptions out of the gathered results
ValidResults(results) == SelectSeq(results, LAMBDA r : ~IsException(r))

\* variant: a subtask whose coroutine raised is queued again
SubtaskRetried == "PENDING"

\* a subtask whose coroutine raised is finished: nothing runs it again
SubtaskAfterException == "FAILED"

RECURSIVE GCD(_, _)
GCD(a, b) == IF b = 0 THEN a ELSE GCD(b, a % b)

\* the rational n/d in lowest terms
Frac(n, d) == LET g == GCD(n, d) IN [num |-> n \div g, den |-> d \div g]

RECURSIVE TotalConfidence(_)
\* total_confidence += result.get("cognitive_load", 0.0)
TotalConfidence(results) ==
    IF results = <<>> THEN 0
    ELSE TaskGet(Head(results), "cognitive_load", 0) + TotalConfidence(Tail(results))

\* variant: the total without the division
ConfidenceScoreTotal(results) == Frac(TotalConfidence(results), 1)

\* total_confidence / len(results) if results else 0.0
ConfidenceScore(results) ==
    IF results # <<>> THEN Frac(TotalConfidence(results), Len(results)) ELSE Frac(0, 1)

\* _generate_final_output
GenerateFinalOutput(results) ==
    [synthesis_complete |-> TRUE,
     agent_consensus |-> Len(results),
     output_quality |-> "apex",
     recommendations |-> "Cognitive task completed successfully"]

\* _consolidate_results
ConsolidateResults(results, tid) ==
    [task_id |-> tid,
     status |-> "completed",
     agent_count |-> Len(results),
     cognitive_synthesis |-> results,
     final_output |-> GenerateFinalOutput(results),
     confidence_score |-> ConfidenceScore(results)]

\* memory_content of _store_in_memory, built at time t
MemoryContent(tid, result, t) ==
    [task_id |-> tid,
     result_summary |-> result.final_output,
     cognitive_metrics |->
        [confidence |-> result.confidence_score, agent_count |-> result.agent_count],
     timestamp |-> t]

\* variant: an exception of the request is not caught
StoreExceptionEscapes == FALSE

\* except Exception as e: around the request of _store_in_memory
StoreExceptionCaught == TRUE

\* variant: the request is made again until the API answers 200
PcRetryStore(response) == IF response = "200" THEN "done" ELSE "store"

\* _store_in_memory makes one request and returns, whatever the answer
PcAfterStore(response) == "done"

\* return final_result: what process_cognitive_task returns after
\* _store_in_memory logged the line log
ProcessReturn(result, log) == result

\* the line _store_in_memory logs for an answer of the API
StoreLogLine(response) ==
    IF response = "200" THEN "stored"
    ELSE IF response = "exception" THEN "error"
    ELSE "failed"

NoResult == [none |-> TRUE]

NoTask == [none |-> TRUE]

NoTaskId == [none |-> TRUE]

\* ------------------------------------------------------------------ state
VARIABLES
    now,                \* int(time.time())
    agents,             \* self.agents: status and last_activity of every agent
    api_key,            \* self.memory_constellation["api_key"] is set
    documents,          \* documents the memory API has accepted, oldest first
    dispatches,         \* calls finished so far on this instance
    pc,                 \* position of the current call
    entry,              \* the method the caller invoked
    task,               \* the task dictionary of the current call
    task_id,            \* task_id of process_cognitive_task
    agent_ids,          \* agent_ids of _coordinate_agent_execution
    subtask_state,      \* state of the coroutine of each agent task
    executions,         \* times the coroutine of each agent task was started
    gathered,           \* the result slots of asyncio.gather
    out_of_order,       \* an agent task returned after one handed over later had
    valid_results,      \* valid_results of _coordinate_agent_execution
    final_result,       \* final_result of process_cognitive_task
    returned,           \* value process_cognitive_task returned to the caller
    raised,             \* exception that left the call, "none" if none
    store_calls,        \* calls of _store_in_memory made by the current call
    store_log,          \* what _store_in_memory logged last, "none" if nothing
    deadline_expired    \* the caller's deadline passed during the call

\* the loop of _coordinate_agent_execution taken one agent at a time
VARIABLES
    agent_tasks         \* the agent_task dictionaries built so far

\* calls of process_cognitive_task that run at the same time on the instance
VARIABLES
    calls               \* per caller: where its call is, and its locals

Callers == 1..NumCallers

\* a caller that has not called yet
NoCall ==
    [pc |-> "idle", task |-> NoTask, task_id |-> NoTaskId, agent_ids |-> << >>,
     subtask_state |-> << >>, returned |-> NoResult]

\* ------------------------------------------------- session store: values
\* Python values, tagged with their type: str, int (its digits), dict (a
\* function from keys to values) and an object json cannot serialise
PyStr(text) == [py |-> "str", v |-> text]

PyInt(digits) == [py |-> "int", v |-> digits]

PyDict(items) == [py |-> "dict", items |-> items]

PyObject == [py |-> "object"]

\* {}
EmptyDict == PyDict([k \in {} |-> PyObject])

\* d[key] = value
DictSet(d, key, value) ==
    PyDict([k \in DOMAIN d.items \cup {key} |->
                IF k = key THEN value ELSE d.items[k]])

RECURSIVE Serialisable(_)
\* json.dump does not raise TypeError on the value
Serialisable(x) ==
    IF x.py = "dict" THEN \A k \in DOMAIN x.items : Serialisable(x.items[k])
    ELSE x.py \in {"str", "int"}

\* the member name json.dump writes for a dict key: a str as it is, an int
\* as its digits
JsonKey(k) == k.v

RECURSIVE JsonDump(_)
\* json.dump of a serialisable value: the JSON document written
JsonDump(x) ==
    IF x.py = "dict"
    THEN [json |-> "object",
          members |->
            [name \in {JsonKey(k) : k \in DOMAIN x.items} |->
                JsonDump(x.items[CHOOSE k \in DOMAIN x.items : JsonKey(k) = name])]]
    ELSE IF x.py = "int" THEN [json |-> "number", v |-> x.v]
    ELSE [json |-> "string", v |-> x.v]

RECURSIVE JsonLoad(_)
\* json.load of a JSON document: every member name comes back as a str
JsonLoad(j) ==
    IF j.json = "object"
    THEN PyDict([k \in {PyStr(name) : name \in DOMAIN j.members} |->
                    JsonLoad(j.members[k.v])])
    ELSE IF j.json = "number" THEN PyInt(j.v)
    ELSE PyStr(j.v)

\* the text of a file opened with "w" whose json.dump raised part-way: not
\* a JSON document
TruncatedText == [json |-> "truncated"]

\* the text of a file just opened with "w": nothing
EmptyText == [json |-> "empty"]

\* what MEMORY_FILE.open("w") and json.dump(mem, f) leave in the file
WrittenText(mem) ==
    IF Serialisable(mem) THEN JsonDump(mem) ELSE TruncatedText

\* MEMORY_FILE does not exist
NoFile == [exists |-> FALSE]

\* json.load(f) of the file raises JSONDecodeError
Undecodable(file) == file.exists /\ file.text \in {TruncatedText, EmptyText}

\* mem as save_chat_memory reads it: the file's content, {} without a file
ReadMemory(file) ==
    IF file.exists THEN JsonLoad(file.text) ELSE EmptyDict

\* the value load_all_session_memory returns, or the exception it raises
LoadAllSessionMemory(file) ==
    IF ~file.exists THEN EmptyDict
    ELSE IF Undecodable(file) THEN [py |-> "raised", v |-> "JSONDecodeError"]
    ELSE JsonLoad(file.text)

\* the session ids and chat data handed to save_chat_memory
SessionIds == {"s1", "s2"}

ChatData ==
    { PyDict([k \in {PyStr("msg")} |-> PyStr("hi")]),
      PyDict([k \in {PyStr("msg")} |-> PyStr("bye")]),
      PyDict([k \in {PyInt("1")} |-> PyStr("hi")]),
      PyDict([k \in {PyStr("when")} |-> PyObject]) }

Savers == 1..NumSavers

\* a caller outside save_chat_memory; raised is the exception its last call
\* ended with
IdleSaver(exception) ==
    [pc |-> "idle", session_id |-> None, mem |-> EmptyDict, raised |-> exception]

NotLoaded == [py |-> "nothing"]

\* the session store of auto_memory_bank.py
VARIABLES
    memory_file,        \* MEMORY_FILE: absent, or its text
    savers,             \* per caller of save_chat_memory: where it is, and mem
    loaded,             \* what the last load_all_session_memory gave
    last_saved          \* per session id, the data of its last finished save

decompose_vars == << agent_tasks >>

store_vars == << memory_file, savers, loaded, last_saved >>

concurrent_vars == << calls >>

\* the module global APEX_CONSCIOUSNESS and the calls that read it
VARIABLES
    apex_consciousness, \* APEX_CONSCIOUSNESS: None, or the instance
    constructions,      \* times ApexConsciousness(...) has run
    singleton_calls,    \* calls of initialize_god_mind and get_consciousness
    last_call,          \* the last of these calls: function and argument
    first_level,        \* the cognitive level the first call asked for
    returned_instances  \* the instances these calls have returned

singleton_vars ==
    << apex_consciousness, constructions, singleton_calls, last_call,
       first_level, returned_instances >>

\* one ApexAgentChain of src/agents/agent_chain_upgrade.py
VARIABLES
    chain_memory,       \* self.memory
    routines,           \* self.routines
    chain_pc,           \* "idle", or "loop" inside run_chain's for loop
    chain_context,      \* the context of the current run_chain call
    running,            \* the routines the current run_chain call has run
    run_chain_calls,    \* calls of run_chain so far
    direct_discoveries  \* calls of discover_routines made by the caller

chain_vars ==
    << chain_memory, routines, chain_pc, chain_context, running,
       run_chain_calls, direct_discoveries >>

\* ApexAgentChain(): memory loaded, no routines
ChainIdle ==
    /\ chain_memory = LoadAllSessionMemory(NoFile)
    /\ routines = << >>
    /\ chain_pc = "idle"
    /\ chain_context = None
    /\ running = << >>
    /\ run_chain_calls = 0
    /\ direct_discoveries = 0

\* APEX_CONSCIOUSNESS = None
NoInstance == [none |-> TRUE]

\* the module just imported
SingletonIdle ==
    /\ apex_consciousness = NoInstance
    /\ constructions = 0
    /\ singleton_calls = 0
    /\ last_call = [fn |-> "none", level |-> None]
    /\ first_level = None
    /\ returned_instances = {}

\* the variables no step of a dispatch touches
not_dispatch ==
    << decompose_vars, concurrent_vars, store_vars, singleton_vars, chain_vars >>

\* the store before any save
StoreIdle ==
    /\ memory_file = NoFile
    /\ savers = [p \in Savers |-> IdleSaver("none")]
    /\ loaded = NotLoaded
    /\ last_saved = [sid \in {} |-> EmptyDict]

\* their values while nothing but dispatches runs
NotDispatchIdle ==
    /\ agent_tasks = << >>
    /\ calls = [c \in Callers |-> NoCall]
    /\ StoreIdle
    /\ SingletonIdle
    /\ ChainIdle

dispatch_vars ==
    << now, agents, api_key, documents, dispatches, pc, entry, task, task_id,
       agent_ids, subtask_state, executions, gathered, out_of_order,
       valid_results, final_result, returned, raised, store_calls, store_log,
       deadline_expired >>

vars == << dispatch_vars, not_dispatch >>

call_vars ==
    << entry, task, task_id, agent_ids, subtask_state, executions, gathered,
       out_of_order, valid_results, final_result, returned, raised,
       store_calls, store_log, deadline_expired >>

\* Agent(...) as _deploy_agent_swarm constructs it
NewAgent == [status |-> "inactive", last_activity |-> None]

\* agent_ids lists handed to _coordinate_agent_execution by a direct caller
DirectAgentLists ==
    {SubSeq(TrinityIds, 1, n) : n \in 0..Min(2, Len(TrinityIds))}

Indices == 1..Len(agent_ids)

Terminal == {"SUCCEEDED", "FAILED"}

InFlight == {k \in Indices : subtask_state[k] = "RUNNING"}

\* state after ApexConsciousness() returned
Init ==
    /\ now = 0
    /\ agents = [a \in AgentSet |-> NewAgent]
    /\ api_key \in BOOLEAN
    /\ documents = <<>>
    /\ dispatches = 0
    /\ pc = "idle"
    /\ entry = "none"
    /\ task = NoTask
    /\ task_id = NoTaskId
    /\ agent_ids = <<>>
    /\ subtask_state = <<>>
    /\ executions = <<>>
    /\ gathered = <<>>
    /\ out_of_order = FALSE
    /\ valid_results = <<>>
    /\ final_result = NoResult
    /\ returned = NoResult
    /\ raised = "none"
    /\ store_calls = 0
    /\ store_log = "none"
    /\ deadline_expired = FALSE
    /\ NotDispatchIdle

\* the fan-out of _coordinate_agent_execution: one coroutine per agent id,
\* all handed to asyncio.gather
FanOut(ids) ==
    /\ agent_ids' = ids
    /\ subtask_state' = [k \in 1..Len(ids) |-> "PENDING"]
    /\ executions' = [k \in 1..Len(ids) |-> 0]
    /\ gathered' = [k \in 1..Len(ids) |-> Unfinished]
    /\ out_of_order' = FALSE
    /\ valid_results' = <<>>
    /\ final_result' = NoResult
    /\ returned' = NoResult
    /\ raised' = "none"
    /\ store_calls' = 0
    /\ store_log' = "none"
    /\ deadline_expired' = FALSE
    /\ pc' = "gather"

\* process_cognitive_task up to the await of the gather
ProcessCognitiveTask(t) ==
    /\ UNCHANGED not_dispatch
    /\ pc = "idle"
    /\ entry' = "process_cognitive_task"
    /\ task' = t
    /\ task_id' = TaskGet(t, "id", GeneratedTaskId(now))
    /\ FanOut(AllocateAgentsForTask(TaskGet(t, "type", "general")))
    /\ UNCHANGED << now, agents, api_key, documents, dispatches >>

\* the directories and templates a caller passes
Directories == {"./workspace"}

Templates == {"report"}

\* the task dictionary organize_files builds at time t
OrganizeFilesTask(directory, t) ==
    [id |-> [prefix |-> "file_org", n |-> t],
     type |-> "file_organization",
     input |-> directory,
     mode |-> "quantum",
     cognitive_level |-> "apex"]

\* the task dictionary generate_document builds at time t
GenerateDocumentTask(template, t) ==
    [id |-> [prefix |-> "doc_gen", n |-> t],
     type |-> "document_processing",
     template |-> template,
     data |-> "data",
     output_format |-> "pdf"]

\* organize_files: build the task, then process_cognitive_task
OrganizeFiles(directory) ==
    ProcessCognitiveTask(OrganizeFilesTask(directory, now))

\* generate_document: build the task, then process_cognitive_task
GenerateDocument(template) ==
    ProcessCognitiveTask(GenerateDocumentTask(template, now))

\* _coordinate_agent_execution called with an agent list of the caller's
CoordinateAgentExecution(ids, t) ==
    /\ UNCHANGED not_dispatch
    /\ pc = "idle"
    /\ entry' = "_coordinate_agent_execution"
    /\ task' = t
    /\ task_id' = NoTaskId
    /\ FanOut(ids)
    /\ UNCHANGED << now, agents, api_key, documents, dispatches >>

\* the event loop starts the coroutines in the order they were handed over;
\* each runs up to its await
StartAgentTask(k) ==
    /\ UNCHANGED not_dispatch
    /\ pc = "gather"
    /\ subtask_state[k] = "PENDING"
    /\ \A j \in 1..(k - 1) : subtask_state[j] # "PENDING"
    /\ subtask_state' = [subtask_state EXCEPT ![k] = "RUNNING"]
    /\ executions' = [executions EXCEPT ![k] = @ + 1]
    /\ UNCHANGED << now, agents, api_key, documents, dispatches, pc, entry, task,
                    task_id, agent_ids, gathered, out_of_order, valid_results,
                    final_result, returned, raised, store_calls, store_log,
                    deadline_expired >>

\* _execute_agent_task after the await: the agent record is updated and the
\* result returned
AgentTaskReturns(k) ==
    /\ UNCHANGED not_dispatch
    /\ pc = "gather"
    /\ subtask_state[k] = "RUNNING"
    /\ subtask_state' = [subtask_state EXCEPT ![k] = "SUCCEEDED"]
    /\ agents' =
        IF agent_ids[k] \in DOMAIN agents
        THEN [agents EXCEPT ![agent_ids[k]] = [status |-> "processing", last_activity |-> now]]
        ELSE agents
    /\ gathered' = GatherStore(gathered, k, AgentResult(AgentTasks(agent_ids, task)[k]))
    /\ out_of_order' =
        (out_of_order \/ \E j \in (k + 1)..Len(agent_ids) : subtask_state[j] = "SUCCEEDED")
    /\ UNCHANGED << now, api_key, documents, dispatches, pc, entry, task, task_id,
                    agent_ids, executions, valid_results, final_result, returned,
                    raised, store_calls, store_log, deadline_expired >>

\* the agent's processing raises: the gather keeps the exception as the
\* result of that awaitable, or lets it through when it does not return exceptions
AgentTaskRaises(k) ==
    /\ UNCHANGED not_dispatch
    /\ pc = "gather"
    /\ subtask_state[k] = "RUNNING"
    /\ subtask_state' = [subtask_state EXCEPT ![k] = SubtaskAfterException]
    /\ IF ReturnExceptions
       THEN /\ gathered' = GatherStore(gathered, k, ExceptionResult)
            /\ UNCHANGED << pc, raised >>
       ELSE /\ pc' = "raised"
            /\ raised' = "Exception"
            /\ UNCHANGED gathered
    /\ UNCHANGED << now, agents, api_key, documents, dispatches, entry, task,
                    task_id, agent_ids, executions, out_of_order, valid_results,
                    final_result, returned, store_calls, store_log,
                    deadline_expired >>

\* the caller's deadline passes while the gather is awaited: nothing in the
\* code observes it
DeadlineExpires ==
    /\ UNCHANGED not_dispatch
    /\ pc = "gather"
    /\ ~deadline_expired
    /\ deadline_expired' = TRUE
    /\ UNCHANGED << now, agents, api_key, documents, dispatches, pc, entry, task,
                    task_id, agent_ids, subtask_state, executions, gathered,
                    out_of_order, valid_results, final_result, returned, raised,
                    store_calls, store_log >>

\* the gather returns once every awaitable has finished; the exceptions are
\* filtered out of its list
GatherReturns ==
    /\ UNCHANGED not_dispatch
    /\ pc = "gather"
    /\ \A k \in Indices : subtask_state[k] \in Terminal
    /\ valid_results' = ValidResults(gathered)
    /\ pc' = IF entry = "process_cognitive_task" THEN "consolidate" ELSE "done"
    /\ UNCHANGED << now, agents, api_key, documents, dispatches, entry, task,
                    task_id, agent_ids, subtask_state, executions, gathered,
                    out_of_order, final_result, returned, raised, store_calls,
                    store_log, deadline_expired >>

\* final_result = await self._consolidate_results(results, task_id)
Consolidate ==
    /\ UNCHANGED not_dispatch
    /\ pc = "consolidate"
    /\ final_result' = ConsolidateResults(valid_results, task_id)
    /\ pc' = "store"
    /\ UNCHANGED << now, agents, api_key, documents, dispatches, entry, task,
                    task_id, agent_ids, subtask_state, executions, gathered,
                    out_of_order, valid_results, returned, raised, store_calls,
                    store_log, deadline_expired >>

\* _store_in_memory without an API key, then return final_result
StoreSkipped ==
    /\ UNCHANGED not_dispatch
    /\ pc = "store"
    /\ ~api_key
    /\ store_calls' = store_calls + 1
    /\ store_log' = "key_missing"
    /\ returned' = ProcessReturn(final_result, "key_missing")
    /\ pc' = "done"
    /\ UNCHANGED << now, agents, api_key, documents, dispatches, entry, task,
                    task_id, agent_ids, subtask_state, executions, gathered,
                    out_of_order, valid_results, final_result, raised,
                    deadline_expired >>

\* the answers of the memory API: status 200, another status, or the
\* request raising
Responses == {"200", "500", "exception"}

\* _store_in_memory posting the memory content, then return final_result
StorePost(response) ==
    /\ UNCHANGED not_dispatch
    /\ pc = "store"
    /\ api_key
    /\ store_calls' = store_calls + 1
    /\ store_log' = StoreLogLine(response)
    /\ documents' =
        IF response = "200"
        THEN Append(documents, MemoryContent(task_id, final_result, now))
        ELSE documents
    /\ IF response = "exception" /\ ~StoreExceptionCaught
       THEN /\ pc' = "raised"
            /\ raised' = "ClientError"
            /\ UNCHANGED returned
       ELSE /\ pc' = PcAfterStore(response)
            /\ returned' = ProcessReturn(final_result, StoreLogLine(response))
            /\ UNCHANGED raised
    /\ UNCHANGED << now, agents, api_key, dispatches, entry, task, task_id,
                    agent_ids, subtask_state, executions, gathered, out_of_order,
                    valid_results, final_result, deadline_expired >>

\* the call is over: the caller has the outcome, or the exception
Finish ==
    /\ UNCHANGED not_dispatch
    /\ pc \in {"done", "raised"}
    /\ pc' = "returned"
    /\ dispatches' = dispatches + 1
    /\ UNCHANGED << now, agents, api_key, documents >>
    /\ UNCHANGED call_vars

\* a second passes while no call is running
Tick ==
    /\ UNCHANGED not_dispatch
    /\ pc \in {"idle", "returned"}
    /\ now < MaxClock
    /\ now' = now + 1
    /\ UNCHANGED << agents, api_key, documents, dispatches, pc >>
    /\ UNCHANGED call_vars

\* the caller makes another call on the same instance: the locals of the
\* finished call are gone
NextCall ==
    /\ UNCHANGED not_dispatch
    /\ pc = "returned"
    /\ dispatches < MaxDispatches
    /\ pc' = "idle"
    /\ entry' = "none"
    /\ task' = NoTask
    /\ task_id' = NoTaskId
    /\ agent_ids' = <<>>
    /\ subtask_state' = <<>>
    /\ executions' = <<>>
    /\ gathered' = <<>>
    /\ out_of_order' = FALSE
    /\ valid_results' = <<>>
    /\ final_result' = NoResult
    /\ returned' = NoResult
    /\ raised' = "none"
    /\ store_calls' = 0
    /\ store_log' = "none"
    /\ deadline_expired' = FALSE
    /\ UNCHANGED << now, agents, api_key, documents, dispatches >>

Next ==
    \/ \E t \in Tasks : ProcessCognitiveTask(t)
    \/ \E directory \in Directories : OrganizeFiles(directory)
    \/ \E template \in Templates : GenerateDocument(template)
    \/ \E ids \in DirectAgentLists : \E t \in Tasks : CoordinateAgentExecution(ids, t)
    \/ \E k \in Indices : StartAgentTask(k)
    \/ \E k \in Indices : AgentTaskReturns(k)
    \/ \E k \in Indices : AgentTaskRaises(k)
    \/ DeadlineExpires
    \/ GatherReturns
    \/ Consolidate
    \/ StoreSkipped
    \/ \E response \in Responses : StorePost(response)
    \/ Finish
    \/ Tick

\* one call on a fresh instance
Spec == Init /\ [][Next]_vars

\* up to MaxDispatches calls, one after another, on one instance
NextCalls == Next \/ NextCall

SpecCalls == Init /\ [][NextCalls]_vars

\* ------------------------------------------- consolidation as a function
\* what an awaitable of the gather can have left in its slot: an exception,
\* a result dictionary with a cognitive_load, or one without the key
SlotChoices ==
    {[kind |-> "exception"], [kind |-> "result_without_load"]}
        \cup {[kind |-> "result", load |-> q] : q \in {0, CognitiveLoad, 100}}

\* the gathered value of agent task at, for a choice of SlotChoices
SlotValue(at, choice) ==
    IF choice.kind = "exception" THEN ExceptionResult
    ELSE IF choice.kind = "result_without_load"
    THEN [agent_id |-> at.agent_id, status |-> "completed",
          result |-> AgentResult(at).result]
    ELSE [AgentResult(at) EXCEPT !.cognitive_load = choice.load]

\* process_cognitive_task at the point where every awaitable of the gather
\* has finished, for any list of up to MaxResults gathered values
InitResults ==
    /\ now = 0
    /\ agents = [a \in AgentSet |-> NewAgent]
    /\ api_key = FALSE
    /\ documents = <<>>
    /\ dispatches = 0
    /\ pc = "gather"
    /\ entry = "process_cognitive_task"
    /\ task = [id |-> [prefix |-> "t", n |-> 1], type |-> "general"]
    /\ task_id = [prefix |-> "t", n |-> 1]
    /\ \E n \in 0..MaxResults : \E choice \in [1..n -> SlotChoices] :
        /\ agent_ids = SubSeq(AgentKeys, 1, n)
        /\ gathered =
            [k \in 1..n |->
                SlotValue(AgentTasks(SubSeq(AgentKeys, 1, n), task)[k], choice[k])]
        /\ subtask_state =
            [k \in 1..n |->
                IF choice[k].kind = "exception" THEN "FAILED" ELSE "SUCCEEDED"]
        /\ executions = [k \in 1..n |-> 1]
    /\ out_of_order = FALSE
    /\ valid_results = <<>>
    /\ final_result = NoResult
    /\ returned = NoResult
    /\ raised = "none"
    /\ store_calls = 0
    /\ store_log = "none"
    /\ deadline_expired = FALSE
    /\ NotDispatchIdle

NextConsolidate == GatherReturns \/ Consolidate \/ StoreSkipped

\* the filter of the gathered list and _consolidate_results, applied to any
\* gathered list
SpecConsolidate == InitResults /\ [][NextConsolidate]_vars

\* -------------------------------------------- allocation and decomposition
\* the tasks handed to the decomposition: those of Tasks, tasks of a type
\* the allocation does not know, and the tasks of organize_files and
\* generate_document
DecomposeTasks ==
    Tasks
        \cup {[type |-> "translation"],
               [id |-> [prefix |-> "t", n |-> 1], type |-> "translation",
                input |-> "./workspace", analysis_type |-> "deep",
                output_format |-> "pdf", data |-> "data"]}
        \cup {OrganizeFilesTask(d, 0) : d \in Directories}
        \cup {GenerateDocumentTask(m, 0) : m \in Templates}

\* a task and the agents _allocate_agents_for_task gives it from the
\* deployed swarm, before the loop of _coordinate_agent_execution
InitDecompose ==
    /\ now = 0
    /\ agents = [a \in {DeployedAgentKeys[k] : k \in 1..Len(DeployedAgentKeys)} |-> NewAgent]
    /\ api_key = FALSE
    /\ documents = <<>>
    /\ dispatches = 0
    /\ pc = "decompose"
    /\ entry = "process_cognitive_task"
    /\ task \in DecomposeTasks
    /\ task_id = TaskGet(task, "id", GeneratedTaskId(now))
    /\ agent_ids = AllocateAgents(DeployedAgentKeys, TaskGet(task, "type", "general"))
    /\ subtask_state = <<>>
    /\ executions = <<>>
    /\ gathered = <<>>
    /\ out_of_order = FALSE
    /\ valid_results = <<>>
    /\ final_result = NoResult
    /\ returned = NoResult
    /\ raised = "none"
    /\ store_calls = 0
    /\ store_log = "none"
    /\ deadline_expired = FALSE
    /\ agent_tasks = <<>>
    /\ calls = [c \in Callers |-> NoCall]
    /\ StoreIdle
    /\ SingletonIdle
    /\ ChainIdle

\* one turn of the loop of _coordinate_agent_execution: the agent_task of
\* the next agent id
DecomposeForNextAgent ==
    /\ pc = "decompose"
    /\ Len(agent_tasks) < Len(agent_ids)
    /\ agent_tasks' =
        Append(agent_tasks, AgentTasks(agent_ids, task)[Len(agent_tasks) + 1])
    /\ UNCHANGED dispatch_vars
    /\ UNCHANGED concurrent_vars
    /\ UNCHANGED store_vars
    /\ UNCHANGED singleton_vars
    /\ UNCHANGED chain_vars

NextDecompose == DecomposeForNextAgent

\* _allocate_agents_for_task and _decompose_task_for_agent on the deployed
\* swarm, for any task
SpecDecompose == InitDecompose /\ [][NextDecompose]_vars

\* ================================================================= claims
Succeeded == {k \in Indices : subtask_state[k] = "SUCCEEDED"}

Failed == {k \in Indices : subtask_state[k] = "FAILED"}

AllFailed == Indices # {} /\ Failed = Indices

\* process_cognitive_task has produced its outcome
Consolidated ==
    entry = "process_cognitive_task" /\ pc \in {"store", "done", "returned"}

\* process_cognitive_task has returned its outcome to the caller
Returned ==
    entry = "process_cognitive_task" /\ pc \in {"done", "returned"}

\* the results of the agents of S, in the order of agent_ids
RECURSIVE ResultsOf(_, _)
ResultsOf(S, k) ==
    IF k > Len(agent_ids) THEN <<>>
    ELSE (IF k \in S THEN <<AgentResult(AgentTasks(agent_ids, task)[k])>> ELSE <<>>)
            \o ResultsOf(S, k + 1)

\* the quality a successful agent task reported: result.get("cognitive_load", 0.0)
QualityOf(k) == TaskGet(gathered[k], "cognitive_load", 0)

\* sum of the quality of the results of the agent tasks of S
RECURSIVE QualitySum(_)
QualitySum(S) ==
    IF S = {} THEN 0
    ELSE LET k == CHOOSE x \in S : TRUE
         IN  QualityOf(k) + QualitySum(S \ {k})

\* c is the mean of the quality of the results of S, 0 when S is empty
IsMeanQuality(c, S) ==
    IF S = {} THEN c.num = 0
    ELSE c.num * Cardinality(S) = QualitySum(S) * c.den

\* C1: the outcome of a dispatch reports counts that add up to the number of
\* agents dispatched. The outcome carries one count, agent_count, and the
\* list cognitive_synthesis of the successes: succeeded is the length of the
\* list, failed is the rest of agent_count. (Violated: agent_count counts the
\* successes only, a failed agent appears nowhere in the outcome.)
C1_CountsAddUpToDispatched ==
    Returned =>
        LET succeeded == Len(returned.cognitive_synthesis)
            failed == returned.agent_count - succeeded
        IN  succeeded + failed = Len(agent_ids)

\* C2: when an agent task raises, no exception leaves the dispatch, every
\* sibling still reaches a terminal state before the gather is over, every
\* sibling that succeeded has its result in the outcome, and a failed
\* subtask is in neither cognitive_synthesis, agent_count nor the confidence.
C2_FailureIsolated ==
    (entry = "process_cognitive_task" /\ Failed # {}) =>
        /\ pc # "raised" /\ raised = "none"
        /\ pc # "gather" => \A k \in Indices : subtask_state[k] \in Terminal
        /\ Consolidated =>
            /\ \A k \in Succeeded :
                InSeq(AgentResult(AgentTasks(agent_ids, task)[k]),
                      final_result.cognitive_synthesis)
            /\ \A k \in Failed :
                \A j \in 1..Len(final_result.cognitive_synthesis) :
                    /\ ~IsException(final_result.cognitive_synthesis[j])
                    /\ final_result.cognitive_synthesis[j].agent_id # agent_ids[k]
            /\ final_result.agent_count = Cardinality(Succeeded)
            /\ IsMeanQuality(final_result.confidence_score, Succeeded)

C2_Witness ==
    Returned /\ Failed # {} /\ Succeeded # {}

\* C3: when every agent task of a dispatch fails, no exception leaves
\* process_cognitive_task and the outcome it returns has confidence 0 and
\* counts no success.
C3_AllFailedOutcome ==
    (entry = "process_cognitive_task" /\ AllFailed) =>
        /\ pc # "raised" /\ raised = "none"
        /\ Consolidated =>
            /\ final_result.confidence_score = Frac(0, 1)
            /\ final_result.agent_count = 0
            /\ final_result.cognitive_synthesis = <<>>
        /\ Returned => returned = final_result

C3_Witness ==
    Returned /\ AllFailed /\ pc = "returned"

\* a final_output that reports the task as successfully completed
ReportsSuccess(output) ==
    \/ output.synthesis_complete
    \/ output.recommendations = "Cognitive task completed successfully"

\* C4: when every subtask fails, final_output is an explicit failure marker:
\* it differs from the final_output of any dispatch with a success and does
\* not report the task as successfully completed. (Violated: the code
\* returns synthesis_complete = True and "completed successfully".)
C4_AllFailedIsMarked ==
    (Returned /\ AllFailed) =>
        /\ \A n \in 1..Len(agent_ids) :
            returned.final_output # GenerateFinalOutput(ResultsOf(1..n, 1))
        /\ ~ReportsSuccess(returned.final_output)

\* C5: the confidence of the outcome is the mean of the quality of the
\* successful results only, 0 when there is none.
C5_ConfidenceIsMeanOfSuccesses ==
    Consolidated => IsMeanQuality(final_result.confidence_score, Succeeded)

\* three workers, the second raises, the other two succeed with quality 1.0
C5_Witness ==
    /\ Returned
    /\ Len(agent_ids) = 3
    /\ Failed = {2}
    /\ QualityOf(1) = 100 /\ QualityOf(3) = 100
    /\ returned.agent_count = 2
    /\ returned.confidence_score = Frac(100, 1)

\* C6: a dispatch with no worker fails with InvalidTaskError before anything
\* runs. (Violated: _coordinate_agent_execution gathers nothing and returns
\* an empty list; nothing in the code raises.)
C6_EmptyDispatchRejected ==
    (entry # "none" /\ agent_ids = <<>>) => raised = "InvalidTaskError"

\* C7: with concurrency_limit = 1, at most one subtask is in flight in every
\* state. (Violated: the gather starts every coroutine, no limit is applied.)
C7_InFlightWithinLimitOne ==
    Cardinality(InFlight) <= 1

\* C8: once the caller's deadline has passed, the subtasks still in flight
\* are abandoned: none of them completes into the results any more.
\* (Violated: the gather has no timeout and waits for every subtask.)
C8_DeadlineAbandonsInFlight ==
    [][(pc = "gather" /\ deadline_expired) =>
            \A k \in Indices :
                subtask_state[k] = "RUNNING" => subtask_state'[k] # "SUCCEEDED"]_vars

\* C9: the outcome is a function of the task and of which agents succeeded:
\* it is the consolidation of the successful results in the order of
\* agent_ids, whatever the order in which the subtasks finished.
C9_OutcomeIndependentOfCompletionOrder ==
    Consolidated => final_result = ConsolidateResults(ResultsOf(Succeeded, 1), task_id)

\* the subtasks finished in another order than they were handed over
C9_Witness ==
    /\ Returned
    /\ Cardinality(Succeeded) >= 2
    /\ out_of_order

\* the steps a subtask can take
SubtaskSteps ==
    { <<"PENDING", "PENDING">>, <<"PENDING", "RUNNING">>, <<"RUNNING", "RUNNING">>,
      <<"RUNNING", "SUCCEEDED">>, <<"RUNNING", "FAILED">>,
      <<"SUCCEEDED", "SUCCEEDED">>, <<"FAILED", "FAILED">> }

\* C10: within a dispatch each assigned agent has one subtask, which goes
\* PENDING -> RUNNING -> SUCCEEDED or FAILED, stays in its terminal state
\* and is started exactly once.
C10_SubtaskLifecycle ==
    [][ /\ \A j, k \in DOMAIN agent_ids' : j # k => agent_ids'[j] # agent_ids'[k]
        /\ DOMAIN subtask_state' = DOMAIN agent_ids'
        /\ \A k \in DOMAIN subtask_state' :
            /\ executions'[k] = (IF subtask_state'[k] = "PENDING" THEN 0 ELSE 1)
            /\ (pc # "idle" /\ pc' # "idle") =>
                <<subtask_state[k], subtask_state'[k]>> \in SubtaskSteps ]_vars

C10_Witness ==
    /\ Returned
    /\ Failed # {} /\ Succeeded # {}
    /\ \A k \in Indices : executions[k] = 1

\* what _store_in_memory logs when nothing was stored
StoreFailures == {"key_missing", "failed", "error"}

\* process_cognitive_task is over, with a value or with an exception
CallOver == entry = "process_cognitive_task" /\ pc \in {"done", "returned", "raised"}

\* C12: when the store step fails (no API key, an answer other than 200, an
\* exception of the request), no exception leaves process_cognitive_task and
\* the value it returns is exactly the consolidated outcome.
C12_StoreFailureContained ==
    (CallOver /\ store_log \in StoreFailures)
        => /\ raised = "none"
           /\ returned = ConsolidateResults(valid_results, task_id)

\* a call has returned after the request of the store step raised
C12_Witness ==
    /\ entry = "process_cognitive_task"
    /\ pc = "returned"
    /\ store_log = "error"
    /\ returned # NoResult

\* C13: the value returned by a dispatch whose store step failed or was
\* skipped differs from the value the same dispatch returns when the store
\* step succeeded.
C13_StoreFailureReported ==
    (CallOver /\ raised = "none" /\ store_log \in StoreFailures)
        => returned # ProcessReturn(final_result, "stored")

\* C14: after process_cognitive_task has returned, every agent record
\* (status, last_activity) equals its value before the call.
C14_DispatchLeavesNoState ==
    (entry = "process_cognitive_task" /\ pc = "returned")
        => agents = [a \in AgentSet |-> NewAgent]

\* C19: the steps of a dispatch are ordered and the store is called once:
\* consolidation starts only when every subtask is terminal, the store is
\* called only after consolidation has produced the outcome, and a call that
\* returns has called the store exactly once, with its id and outcome, with
\* or without an API key.
C19_StepsOrderedStoreOnce ==
    /\ pc \in {"consolidate", "store"}
        => \A k \in Indices : subtask_state[k] \in Terminal
    /\ pc \in {"idle", "gather", "consolidate"} => store_calls = 0
    /\ pc = "store"
        => /\ final_result = ConsolidateResults(valid_results, task_id)
           /\ store_calls = 0
    /\ (CallOver /\ raised = "none")
        => /\ \A k \in Indices : subtask_state[k] \in Terminal
           /\ store_calls = 1
           /\ (store_log = "stored")
                => /\ documents # << >>
                   /\ \E t \in 0..now :
                        documents[Len(documents)] =
                            MemoryContent(task_id, final_result, t)

\* a call has returned without an API key, after one call of the store
C19_Witness ==
    /\ entry = "process_cognitive_task"
    /\ pc = "returned"
    /\ ~api_key
    /\ store_calls = 1
    /\ Len(agent_ids) > 1

\* the prefixes of the identifiers the code generates
GeneratedPrefixes == {"task", "file_org", "doc_gen"}

\* C18: two tasks whose identifiers were generated (process_cognitive_task
\* without "id", organize_files, generate_document) never carry the same
\* identifier, so no two stored documents have the same generated task_id.
C18_GeneratedIdsUnique ==
    \A i, j \in 1..Len(documents) :
        (i < j /\ documents[i].task_id.prefix \in GeneratedPrefixes)
            => documents[i].task_id # documents[j].task_id

\* the documents the memory API holds, as a set
StoredDocuments == {documents[i] : i \in 1..Len(documents)}

\* a document for the id and outcome of the current call is already stored
AlreadyStored ==
    \E i \in 1..Len(documents) :
        \E t \in 0..MaxClock :
            documents[i] = MemoryContent(task_id, final_result, t)

\* C11: storing an id and outcome that are already stored leaves the set of
\* stored documents as it was.
C11_StoreIdempotent ==
    [][(pc = "store" /\ AlreadyStored) => StoredDocuments' = StoredDocuments]_vars

\* --------------------------------------------------------- concurrent calls
\* the tasks of the concurrent callers
ConcurrentTasks == {t \in Tasks : "input" \notin DOMAIN t}

\* an instance without API key on which nobody has called yet
InitConcurrent ==
    /\ Init
    /\ api_key = FALSE

\* what SpecConcurrent leaves alone: the single-call locals, the clock, the
\* memory
not_concurrent ==
    << now, api_key, documents, dispatches, pc, call_vars, decompose_vars,
       store_vars, singleton_vars, chain_vars >>

\* caller c enters process_cognitive_task: id, allocation, fan-out
ConcurrentCall(c, t) ==
    /\ calls[c].pc = "idle"
    /\ calls' =
        [calls EXCEPT ![c] =
            [pc |-> "gather",
             task |-> t,
             task_id |-> TaskGet(t, "id", GeneratedTaskId(now)),
             agent_ids |-> AllocateAgentsForTask(TaskGet(t, "type", "general")),
             subtask_state |->
                [k \in 1..Len(AllocateAgentsForTask(TaskGet(t, "type", "general")))
                    |-> "PENDING"],
             returned |-> NoResult]]
    /\ UNCHANGED agents
    /\ UNCHANGED not_concurrent

\* the event loop starts the next coroutine of caller c's gather
ConcurrentStart(c, k) ==
    /\ calls[c].pc = "gather"
    /\ calls[c].subtask_state[k] = "PENDING"
    /\ \A j \in 1..(k - 1) : calls[c].subtask_state[j] # "PENDING"
    /\ calls' = [calls EXCEPT ![c].subtask_state[k] = "RUNNING"]
    /\ UNCHANGED agents
    /\ UNCHANGED not_concurrent

\* _execute_agent_task of caller c's k-th agent after the await: the agent
\* record is written and the result returned
ConcurrentAgentReturns(c, k) ==
    /\ calls[c].pc = "gather"
    /\ calls[c].subtask_state[k] = "RUNNING"
    /\ calls' = [calls EXCEPT ![c].subtask_state[k] = "SUCCEEDED"]
    /\ agents' =
        IF calls[c].agent_ids[k] \in DOMAIN agents
        THEN [agents EXCEPT ![calls[c].agent_ids[k]] =
                [status |-> "processing", last_activity |-> now]]
        ELSE agents
    /\ UNCHANGED not_concurrent

\* the processing of caller c's k-th agent raises
ConcurrentAgentRaises(c, k) ==
    /\ calls[c].pc = "gather"
    /\ calls[c].subtask_state[k] = "RUNNING"
    /\ calls' = [calls EXCEPT ![c].subtask_state[k] = SubtaskAfterException]
    /\ UNCHANGED agents
    /\ UNCHANGED not_concurrent

\* the list caller c's gather returns
GatheredOf(c) ==
    [k \in 1..Len(calls[c].agent_ids) |->
        IF calls[c].subtask_state[k] = "SUCCEEDED"
        THEN AgentResult(AgentTasks(calls[c].agent_ids, calls[c].task)[k])
        ELSE ExceptionResult]

\* caller c's gather returns; filter, consolidate, store (skipped without
\* API key), return
ConcurrentReturn(c) ==
    /\ calls[c].pc = "gather"
    /\ \A k \in 1..Len(calls[c].agent_ids) : calls[c].subtask_state[k] \in Terminal
    /\ calls' =
        [calls EXCEPT
            ![c].pc = "returned",
            ![c].returned =
                ProcessReturn(
                    ConsolidateResults(ValidResults(GatheredOf(c)), calls[c].task_id),
                    "key_missing")]
    /\ UNCHANGED agents
    /\ UNCHANGED not_concurrent

NextConcurrent ==
    \/ \E c \in Callers : \E t \in ConcurrentTasks : ConcurrentCall(c, t)
    \/ \E c \in Callers : \E k \in 1..Len(calls[c].agent_ids) : ConcurrentStart(c, k)
    \/ \E c \in Callers : \E k \in 1..Len(calls[c].agent_ids) : ConcurrentAgentReturns(c, k)
    \/ \E c \in Callers : \E k \in 1..Len(calls[c].agent_ids) : ConcurrentAgentRaises(c, k)
    \/ \E c \in Callers : ConcurrentReturn(c)

\* NumCallers calls of process_cognitive_task interleaved on one instance
SpecConcurrent == InitConcurrent /\ [][NextConcurrent]_vars

\* ------------------------------------------------ session store: actions
\* what the session store leaves alone
not_store ==
    << dispatch_vars, decompose_vars, concurrent_vars, singleton_vars, chain_vars >>

\* no caller is inside save_chat_memory
NoSaveRunning == \A p \in Savers : savers[p].pc = "idle"

\* save_chat_memory up to mem[session_id] = chat_data: the directory is
\* made, the file read if it exists, the session set in mem
SaveReads(p, sid, data) ==
    /\ savers[p].pc = "idle"
    /\ savers' =
        [savers EXCEPT ![p] =
            IF Undecodable(memory_file)
            THEN IdleSaver("JSONDecodeError")
            ELSE [pc |-> "write",
                  session_id |-> sid,
                  mem |-> DictSet(ReadMemory(memory_file), PyStr(sid), data),
                  raised |-> "none"]]
    /\ UNCHANGED << memory_file, loaded, last_saved >>
    /\ UNCHANGED not_store

\* save_chat_memory at MEMORY_FILE.open("w"): the file is emptied
SaveOpens(p) ==
    /\ savers[p].pc = "write"
    /\ memory_file' = [exists |-> TRUE, text |-> EmptyText]
    /\ savers' = [savers EXCEPT ![p].pc = "dump"]
    /\ UNCHANGED << loaded, last_saved >>
    /\ UNCHANGED not_store

\* save_chat_memory at json.dump(mem, f) and the end of the with block: mem
\* is written; a value json cannot serialise ends the dump part-way
SaveWrites(p) ==
    /\ savers[p].pc = "dump"
    /\ memory_file' = [exists |-> TRUE, text |-> WrittenText(savers[p].mem)]
    /\ savers' =
        [savers EXCEPT ![p] =
            IdleSaver(IF Serialisable(savers[p].mem) THEN "none" ELSE "TypeError")]
    /\ last_saved' =
        IF Serialisable(savers[p].mem)
        THEN [sid \in DOMAIN last_saved \cup {savers[p].session_id} |->
                IF sid = savers[p].session_id
                THEN savers[p].mem.items[PyStr(sid)]
                ELSE last_saved[sid]]
        ELSE last_saved
    /\ UNCHANGED loaded
    /\ UNCHANGED not_store

\* load_all_session_memory
LoadAll ==
    /\ loaded' = LoadAllSessionMemory(memory_file)
    /\ UNCHANGED << memory_file, savers, last_saved >>
    /\ UNCHANGED not_store

\* the calls of the store made one after another
NextStore ==
    \/ \E p \in Savers : \E sid \in SessionIds : \E data \in ChatData :
            NoSaveRunning /\ SaveReads(p, sid, data)
    \/ \E p \in Savers : SaveOpens(p)
    \/ \E p \in Savers : SaveWrites(p)
    \/ NoSaveRunning /\ LoadAll

InitStore ==
    /\ Init
    /\ api_key = FALSE

SpecStore == InitStore /\ [][NextStore]_vars

\* the chat data a save and a load give back as it was: with it, only the
\* order of the steps can lose a session
ExactChatData ==
    {data \in ChatData : Serialisable(data) /\ JsonLoad(JsonDump(data)) = data}

\* the calls of the store made by callers that run at the same time: the
\* steps of their saves, and the loads, in any order
NextStoreConcurrent ==
    \/ \E p \in Savers : \E sid \in SessionIds : \E data \in ExactChatData :
            SaveReads(p, sid, data)
    \/ \E p \in Savers : SaveOpens(p)
    \/ \E p \in Savers : SaveWrites(p)
    \/ LoadAll

SpecStoreConcurrent == InitStore /\ [][NextStoreConcurrent]_vars

\* ------------------------------------------------------------- singleton
\* CognitiveLevelEnum
CognitiveLevels == {"basic", "enhanced", "quantum", "apex", "transcendent"}

\* the default of initialize_god_mind's cognitive_level
DefaultLevel == "apex"

\* what the singleton functions leave alone
not_singleton ==
    << dispatch_vars, decompose_vars, concurrent_vars, store_vars, chain_vars >>

\* ApexConsciousness(cognitive_level): the instance made by the n-th run of
\* the constructor
NewInstance(n, level) == [serial |-> n, cognitive_level |-> level]

\* variant: a new instance on every call
AlwaysConstruct(current) == TRUE

\* if APEX_CONSCIOUSNESS is None
MustConstruct(current) == current = NoInstance

\* the body of initialize_god_mind(level), reached by the call fn
InitializeBody(fn, asked, level) ==
    /\ singleton_calls < MaxSingletonCalls
    /\ singleton_calls' = singleton_calls + 1
    /\ last_call' = [fn |-> fn, level |-> asked]
    /\ first_level' = IF singleton_calls = 0 THEN level ELSE first_level
    /\ IF MustConstruct(apex_consciousness)
       THEN /\ constructions' = constructions + 1
            /\ apex_consciousness' = NewInstance(constructions + 1, level)
       ELSE UNCHANGED << constructions, apex_consciousness >>
    /\ returned_instances' = returned_instances \cup {apex_consciousness'}
    /\ UNCHANGED not_singleton

\* initialize_god_mind(level)
InitializeGodMind(level) == InitializeBody("initialize_god_mind", level, level)

\* get_consciousness(): initialize_god_mind() without an instance, the
\* instance otherwise
GetConsciousness ==
    IF apex_consciousness = NoInstance
    THEN InitializeBody("get_consciousness", None, DefaultLevel)
    ELSE /\ singleton_calls < MaxSingletonCalls
         /\ singleton_calls' = singleton_calls + 1
         /\ last_call' = [fn |-> "get_consciousness", level |-> None]
         /\ returned_instances' = returned_instances \cup {apex_consciousness}
         /\ UNCHANGED << apex_consciousness, constructions, first_level >>
         /\ UNCHANGED not_singleton

NextSingleton ==
    \/ \E level \in CognitiveLevels : InitializeGodMind(level)
    \/ GetConsciousness

\* any sequence of up to MaxSingletonCalls calls in one process
SpecSingleton == Init /\ [][NextSingleton]_vars

\* ------------------------------------------------------------ agent chain
\* the names discover_routines adds
DiscoveredRoutines ==
    << "default_greet", "context_refine", "memory_sync", "automation_invoke" >>

\* the contexts a caller passes to run_chain
Contexts == {None, "ctx"}

\* what the agent chain leaves alone
not_chain ==
    << dispatch_vars, decompose_vars, concurrent_vars, store_vars, singleton_vars >>

\* variant: the list set to the discovered names
DiscoverAssign(list) == DiscoveredRoutines

\* self.routines.extend([...])
Discover(list) == list \o DiscoveredRoutines

\* run_chain up to its for loop: the memory is printed, discover_routines
\* called
RunChainBegins(context) ==
    /\ chain_pc = "idle"
    /\ run_chain_calls + direct_discoveries < MaxChainCalls
    /\ run_chain_calls' = run_chain_calls + 1
    /\ chain_context' = context
    /\ routines' = Discover(routines)
    /\ running' = << >>
    /\ chain_pc' = "loop"
    /\ UNCHANGED << chain_memory, direct_discoveries >>
    /\ UNCHANGED not_chain

\* one turn of for routine in self.routines: the next routine is run
RunChainStep ==
    /\ chain_pc = "loop"
    /\ Len(running) < Len(routines)
    /\ running' = Append(running, routines[Len(running) + 1])
    /\ UNCHANGED << chain_memory, routines, chain_pc, chain_context,
                    run_chain_calls, direct_discoveries >>
    /\ UNCHANGED not_chain

\* the for loop is over: run_chain returns
RunChainReturns ==
    /\ chain_pc = "loop"
    /\ Len(running) = Len(routines)
    /\ chain_pc' = "idle"
    /\ UNCHANGED << chain_memory, routines, chain_context, running,
                    run_chain_calls, direct_discoveries >>
    /\ UNCHANGED not_chain

\* discover_routines called by the caller itself
DiscoverRoutines ==
    /\ chain_pc = "idle"
    /\ run_chain_calls + direct_discoveries < MaxChainCalls
    /\ direct_discoveries' = direct_discoveries + 1
    /\ routines' = Discover(routines)
    /\ UNCHANGED << chain_memory, chain_pc, chain_context, running,
                    run_chain_calls >>
    /\ UNCHANGED not_chain

NextChain ==
    \/ \E context \in Contexts : RunChainBegins(context)
    \/ RunChainStep
    \/ RunChainReturns
    \/ DiscoverRoutines

\* the calls made one after another on one ApexAgentChain
SpecChain == Init /\ [][NextChain]_vars

\* the types _allocate_agents_for_task has a branch for
TableTypes == {"file_organization", "document_processing", "code_analysis"}

\* the task being decomposed has a type outside the table
GeneralTask ==
    /\ pc = "decompose"
    /\ TaskGet(task, "type", "general") \notin TableTypes

\* the action and the payload field each role of a trinity team is given
RoleSubtask(role, t) ==
    IF role = "ingest"
    THEN [action |-> "data_ingestion", target |-> TaskGet(t, "input", None)]
    ELSE IF role = "analyze"
    THEN [action |-> "analysis", focus |-> TaskGet(t, "analysis_type", None)]
    ELSE [action |-> "result_synthesis", format |-> TaskGet(t, "output_format", None)]

\* C16, as stated: for a task whose type is outside the table, every worker
\* receives the subtask "general_processing" carrying the whole task.
C16_GeneralProcessingForAll ==
    GeneralTask
        => \A k \in 1..Len(agent_tasks) :
                agent_tasks[k].subtask =
                    [action |-> "general_processing", data |-> task]

\* C16, amended: for a task whose type is outside the table, the workers are
\* trinity agents and each receives the subtask of its own role (ingest:
\* data_ingestion with the task's input; analyze: analysis with its
\* analysis_type; publish: result_synthesis with its output_format); none
\* receives "general_processing" or the whole task.
C16_RoleSubtaskForGeneralTask ==
    GeneralTask
        => \A k \in 1..Len(agent_tasks) :
                /\ agent_tasks[k].agent_id = agent_ids[k]
                /\ agent_ids[k].kind = "trinity"
                /\ agent_tasks[k].subtask = RoleSubtask(agent_ids[k].tag, task)
                /\ agent_tasks[k].subtask.action # "general_processing"
                /\ "data" \notin DOMAIN agent_tasks[k].subtask

\* a task of an unknown type with every payload field, wholly decomposed
C16_Witness ==
    /\ GeneralTask
    /\ TaskGet(task, "type", "general") = "translation"
    /\ "analysis_type" \in DOMAIN task
    /\ Len(agent_ids) = GeneralTeamSize
    /\ Len(agent_tasks) = Len(agent_ids)

\* the role of a subtask, read from its action
RoleOfAction(action) ==
    IF action = "data_ingestion" THEN "ingest"
    ELSE IF action = "analysis" THEN "analyze"
    ELSE IF action = "result_synthesis" THEN "publish"
    ELSE "none"

\* the workers of the list whose subtask has the role
WorkersWithRole(role) ==
    {k \in 1..Len(agent_tasks) : RoleOfAction(agent_tasks[k].subtask.action) = role}

\* C17, as stated: in the team of nine, workers 1-3 ingest, workers 4-6
\* analyze and workers 7-9 publish.
C17_RoleByBlock ==
    GeneralTask
        => \A k \in 1..Len(agent_tasks) :
                RoleOfAction(agent_tasks[k].subtask.action) = Roles[((k - 1) \div 3) + 1]

\* C17, amended: the team of a general task is nine agents, the first three
\* trinity teams in order, and the role goes round by position: workers 1,
\* 4, 7 ingest, workers 2, 5, 8 analyze, workers 3, 6, 9 publish; once the
\* list is built each role occurs exactly three times.
C17_RoleByPositionInTeam ==
    GeneralTask
        => /\ Len(agent_ids) = GeneralTeamSize
           /\ \A k \in 1..Len(agent_tasks) :
                /\ RoleOfAction(agent_tasks[k].subtask.action) = Roles[((k - 1) % 3) + 1]
                /\ agent_ids[k].n = (k - 1) \div 3
           /\ Len(agent_tasks) = Len(agent_ids)
                => \A r \in {"ingest", "analyze", "publish"} :
                        Cardinality(WorkersWithRole(r)) = 3

\* the nine subtasks of a general task are built
C17_Witness ==
    /\ GeneralTask
    /\ "type" \notin DOMAIN task
    /\ Len(agent_tasks) = GeneralTeamSize
    /\ WorkersWithRole("ingest") = {1, 4, 7}

\* the subtasks in flight, as caller and position
InFlightSubtasks ==
    {ck \in Callers \X (1..3 * NumTrinityTeams + NumSpecialists) :
        /\ ck[2] \in DOMAIN calls[ck[1]].subtask_state
        /\ calls[ck[1]].subtask_state[ck[2]] = "RUNNING"}

AgentOf(ck) == calls[ck[1]].agent_ids[ck[2]]

\* subtask ck writes its agent record in this step
WritesAgentRecord(ck) ==
    /\ ck \in InFlightSubtasks
    /\ calls'[ck[1]].subtask_state[ck[2]] = "SUCCEEDED"

\* C15: whenever a subtask writes its agent record (status, last_activity),
\* no other subtask in flight, of the same call or of another one running at
\* the same time, has the same agent record to write.
C15_OneWriterPerAgentRecord ==
    [][\A ck \in InFlightSubtasks :
          WritesAgentRecord(ck)
              => \A other \in InFlightSubtasks \ {ck} : AgentOf(other) # AgentOf(ck)]_vars

\* the mapping of every session id ever saved to the data of its last save
LastSaves ==
    PyDict([k \in {PyStr(sid) : sid \in DOMAIN last_saved} |-> last_saved[k.v]])

\* C20: between the calls of a sequence of save_chat_memory calls,
\* load_all_session_memory returns exactly the session ids ever saved, each
\* with the data of its last save (so a save changes its own session only),
\* and the empty mapping when nothing was saved.
C20_LoadReturnsLastSaves ==
    NoSaveRunning => LoadAllSessionMemory(memory_file) = LastSaves

\* chat data as a save and a load give it back
RoundTrip(data) == JsonLoad(JsonDump(data))

\* C21: when saves of different sessions run at the same time, their read,
\* update and write steps in any order, then once all have returned (and the
\* file is a JSON document) load_all_session_memory contains every session
\* whose save returned, with its data.
C21_NoSessionLost ==
    (NoSaveRunning /\ ~Undecodable(memory_file))
        => \A sid \in DOMAIN last_saved :
                /\ PyStr(sid) \in DOMAIN LoadAllSessionMemory(memory_file).items
                /\ LoadAllSessionMemory(memory_file).items[PyStr(sid)]
                        = RoundTrip(last_saved[sid])

RECURSIVE Repeated(_, _)
\* the list repeated n times
Repeated(list, n) == IF n = 0 THEN << >> ELSE Repeated(list, n - 1) \o list

\* how often the name occurs in the list
Occurrences(list, name) == Cardinality({i \in 1..Len(list) : list[i] = name})

\* only run_chain has been called on the chain, k = run_chain_calls times
OnlyRunChain == direct_discoveries = 0

\* C23: with k calls of run_chain made on a chain (and no other call), the
\* routine list is the four names k times over, 4k entries; the k-th call
\* runs the list in order, each of the four routines k times; and no step
\* ever removes or reorders an entry: the list before a step is a prefix of
\* the list after it.
C23_RoutinesOnlyGrow ==
    /\ [](OnlyRunChain
            => /\ Len(routines) = 4 * run_chain_calls
               /\ routines = Repeated(DiscoveredRoutines, run_chain_calls)
               /\ running = SubSeq(routines, 1, Len(running))
               /\ (chain_pc = "idle" /\ run_chain_calls > 0)
                    => \A i \in 1..Len(DiscoveredRoutines) :
                            Occurrences(running, DiscoveredRoutines[i])
                                = run_chain_calls)
    /\ [][/\ Len(routines') >= Len(routines)
          /\ SubSeq(routines', 1, Len(routines)) = routines]_vars

\* the third run_chain call on a chain has returned
C23_Witness ==
    /\ OnlyRunChain
    /\ run_chain_calls = 3
    /\ chain_pc = "idle"
    /\ Len(running) = 12
    /\ Occurrences(running, "memory_sync") = 3

====
